---- MODULE Spec2Model ----
(***************************************************************************)
(* Model of scripts/extract_pptx.py: extract_text_from_pptx(pptx_path).    *)
(* Text is a sequence of Unicode code points, archive data a sequence of   *)
(* byte values, standard output the stream of code points written by       *)
(* print (each call writes its argument followed by a line feed).          *)
(***************************************************************************)
EXTENDS Integers, Sequences, FiniteSets, TLC

\* Largest number of entries in the archives explored.
MaxEntries == 2

----------------------------------------------------------------------------
\* Characters

\* Printable ASCII, code points 32..126, in order (three characters by name).
Ascii == <<" ","!","dquote","#","$","%","&","'","(",")","*","+",",","-",".","/","0","1","2","3","4","5","6","7","8","9",":",";","<","=",">","?","@","A","B","C","D","E","F","G","H","I","J","K","L","M","N","O","P","Q","R","S","T","U","V","W","X","Y","Z","[","backslash","]","^","_","backtick","a","b","c","d","e","f","g","h","i","j","k","l","m","n","o","p","q","r","s","t","u","v","w","x","y","z","{","|","}","~">>

Ord(c) == 31 + (CHOOSE k \in 1..Len(Ascii) : Ascii[k] = c)

RECURSIVE Lit(_)
\* A string literal, written character by character, as code points.
Lit(s) == IF s = <<>> THEN <<>> ELSE <<Ord(s[1])>> \o Lit(Tail(s))

LF == 10

\* The string constants of the source
\* 'slide' of the pattern r'slide(\d+)'
KeyWord == Lit(<<"s","l","i","d","e">>)
\* 'ppt/slides/slide'
SlidePrefix == Lit(<<"p","p","t","/","s","l","i","d","e","s","/","s","l","i","d","e">>)
\* '.xml'
XmlSuffix == Lit(<<".","x","m","l">>)
\* 'PPT/SLIDES/'
UpperDir == Lit(<<"P","P","T","/","S","L","I","D","E","S","/">>)
\* '.XML'
UpperXml == Lit(<<".","X","M","L">>)
\* '--- '
HeadingOpen == Lit(<<"-","-","-"," ">>)
\* ' ---'
HeadingClose == Lit(<<" ","-","-","-">>)
\* 'Error: '
ErrorColon == Lit(<<"E","r","r","o","r",":"," ">>)
\* ' '
Space == Lit(<<" ">>)
\* the quote around a name in a message
Quote == Lit(<<"'">>)

----------------------------------------------------------------------------
\* str methods used by the function

StartsWithAt(s, p, k) ==
    /\ k + Len(p) - 1 <= Len(s)
    /\ \A j \in 1..Len(p) : s[k + j - 1] = p[j]

startswith(s, p) == StartsWithAt(s, p, 1)

endswith(s, p) == Len(s) >= Len(p) /\ StartsWithAt(s, p, Len(s) - Len(p) + 1)

\* str.upper on the ASCII letters (the only cased characters in the names explored).
upper(s) == [k \in 1..Len(s) |-> IF s[k] \in 97..122 THEN s[k] - 32 ELSE s[k]]

RECURSIVE replaceFrom(_, _, _, _)
replaceFrom(s, old, new, k) ==
    IF k > Len(s) THEN <<>>
    ELSE IF StartsWithAt(s, old, k)
         THEN new \o replaceFrom(s, old, new, k + Len(old))
         ELSE <<s[k]>> \o replaceFrom(s, old, new, k + 1)

\* str.replace(old, new): every non-overlapping occurrence, left to right.
replace(s, old, new) == replaceFrom(s, old, new, 1)

RECURSIVE join(_, _)
join(sep, parts) ==
    IF parts = <<>> THEN <<>>
    ELSE IF Len(parts) = 1 THEN parts[1]
         ELSE parts[1] \o sep \o join(sep, Tail(parts))

----------------------------------------------------------------------------
\* bytes.decode('utf-8')

IsCont(b) == b \in 128..191

\* Number of bytes of the sequence a lead byte starts; 0 for an invalid start byte.
Utf8Len(b) ==
    IF b < 128 THEN 1
    ELSE IF b \in 194..223 THEN 2
    ELSE IF b \in 224..239 THEN 3
    ELSE IF b \in 240..244 THEN 4
    ELSE 0

\* The second byte's range depends on the lead byte (no overlong forms, no surrogates).
SecondOk(b1, b2) ==
    IF b1 = 224 THEN b2 \in 160..191
    ELSE IF b1 = 237 THEN b2 \in 128..159
    ELSE IF b1 = 240 THEN b2 \in 144..191
    ELSE IF b1 = 244 THEN b2 \in 128..143
    ELSE IsCont(b2)

Utf8Valid(bs, k, n) ==
    /\ n > 0
    /\ k + n - 1 <= Len(bs)
    /\ n >= 2 => SecondOk(bs[k], bs[k + 1])
    /\ \A j \in 2..(n - 1) : IsCont(bs[k + j])

Utf8Point(bs, k, n) ==
    IF n = 1 THEN bs[k]
    ELSE IF n = 2 THEN (bs[k] - 192) * 64 + (bs[k + 1] - 128)
    ELSE IF n = 3 THEN (bs[k] - 224) * 4096 + (bs[k + 1] - 128) * 64 + (bs[k + 2] - 128)
    ELSE (bs[k] - 240) * 262144 + (bs[k + 1] - 128) * 4096
         + (bs[k + 2] - 128) * 64 + (bs[k + 3] - 128)

RECURSIVE decodeFrom(_, _)
decodeFrom(bs, k) ==
    IF k > Len(bs) THEN [ok |-> TRUE, text |-> <<>>]
    ELSE LET n == Utf8Len(bs[k]) IN
         IF ~Utf8Valid(bs, k, n) THEN [ok |-> FALSE, text |-> <<>>]
         ELSE LET rest == decodeFrom(bs, k + n) IN
              IF rest.ok
              THEN [ok |-> TRUE, text |-> <<Utf8Point(bs, k, n)>> \o rest.text]
              ELSE rest

\* ok = FALSE stands for UnicodeDecodeError.
decode(bs) == decodeFrom(bs, 1)

----------------------------------------------------------------------------
\* Regular expressions

IsDigit(c) == c \in 48..57

RECURSIVE DigitRunEnd(_, _)
\* Last position of the run of digits that starts at k (\d+ is greedy).
DigitRunEnd(x, k) ==
    IF k + 1 <= Len(x) /\ IsDigit(x[k + 1]) THEN DigitRunEnd(x, k + 1) ELSE k

RECURSIVE searchFrom(_, _)
searchFrom(x, k) ==
    IF k > Len(x) THEN [matched |-> FALSE, group1 |-> <<>>]
    ELSE IF /\ StartsWithAt(x, KeyWord, k)
            /\ k + 5 <= Len(x)
            /\ IsDigit(x[k + 5])
         THEN [matched |-> TRUE, group1 |-> SubSeq(x, k + 5, DigitRunEnd(x, k + 5))]
         ELSE searchFrom(x, k + 1)

\* re.search(r'slide(\d+)', x): the leftmost match; matched = FALSE stands for None.
search(x) == searchFrom(x, 1)

RECURSIVE int(_)
\* int(s) for a non-empty string of decimal digits.
int(s) ==
    IF s = <<>> THEN 0
    ELSE 10 * int(SubSeq(s, 1, Len(s) - 1)) + (s[Len(s)] - 48)

OpenTag == Lit(<<"<","a",":","t",">">>)
CloseTag == Lit(<<"<","/","a",":","t",">">>)

RECURSIVE LazyEnd(_, _)
\* Where (.*?) started at some point before j stops: the first position at or
\* after j where the closing tag starts, 0 when a line feed (which '.' does
\* not match) or the end of the text comes first.
LazyEnd(content, j) ==
    IF j > Len(content) THEN 0
    ELSE IF StartsWithAt(content, CloseTag, j) THEN j
    ELSE IF content[j] = LF THEN 0
    ELSE LazyEnd(content, j + 1)

RECURSIVE findallFrom(_, _)
findallFrom(content, k) ==
    IF k > Len(content) THEN <<>>
    ELSE IF StartsWithAt(content, OpenTag, k)
         THEN LET e == LazyEnd(content, k + Len(OpenTag)) IN
              IF e = 0 THEN findallFrom(content, k + 1)
              ELSE <<SubSeq(content, k + Len(OpenTag), e - 1)>>
                   \o findallFrom(content, e + Len(CloseTag))
         ELSE findallFrom(content, k + 1)

\* re.findall(r'<a:t>(.*?)</a:t>', content): group 1 of every match, scanning left to right.
findall(content) == findallFrom(content, 1)

----------------------------------------------------------------------------
\* list.sort(key=...)

\* The key lambda: int(re.search(r'slide(\d+)', x).group(1)).  ok = FALSE
\* stands for the AttributeError raised by None.group.
slide_key(x) ==
    LET m == search(x) IN
    IF m.matched THEN [ok |-> TRUE, val |-> int(m.group1)]
    ELSE [ok |-> FALSE, val |-> 0]

RECURSIVE InsertByKey(_, _)
\* x goes after every element whose key is not greater (the sort is stable).
InsertByKey(x, sorted) ==
    IF sorted = <<>> THEN <<x>>
    ELSE IF slide_key(sorted[Len(sorted)]).val <= slide_key(x).val
         THEN Append(sorted, x)
         ELSE Append(InsertByKey(x, SubSeq(sorted, 1, Len(sorted) - 1)),
                     sorted[Len(sorted)])

RECURSIVE LexLess(_, _)
LexLess(a, b) ==
    IF b = <<>> THEN FALSE
    ELSE IF a = <<>> THEN TRUE
    ELSE IF a[1] # b[1] THEN a[1] < b[1]
    ELSE LexLess(Tail(a), Tail(b))

RECURSIVE InsertLex(_, _)
InsertLex(x, sorted) ==
    IF sorted = <<>> THEN <<x>>
    ELSE IF ~LexLess(x, sorted[Len(sorted)])
         THEN Append(sorted, x)
         ELSE Append(InsertLex(x, SubSeq(sorted, 1, Len(sorted) - 1)),
                     sorted[Len(sorted)])

RECURSIVE sort_lexicographic(_)
\* The list sorted by the names themselves (slide_files.sort() without the key).
sort_lexicographic(files) ==
    IF files = <<>> THEN <<>>
    ELSE InsertLex(files[Len(files)],
                   sort_lexicographic(SubSeq(files, 1, Len(files) - 1)))

RECURSIVE sort(_)
\* slide_files.sort(key=...) when every key can be computed.
sort(files) ==
    IF files = <<>> THEN <<>>
    ELSE InsertByKey(files[Len(files)], sort(SubSeq(files, 1, Len(files) - 1)))

----------------------------------------------------------------------------
\* The expressions of the function body

\* The filter also drops entries whose name has no slide number.
is_numbered_slide_file(f) ==
    startswith(f, SlidePrefix) /\ endswith(f, XmlSuffix) /\ slide_key(f).ok

\* The condition of the list comprehension.
is_slide_file(f) == startswith(f, SlidePrefix) /\ endswith(f, XmlSuffix)

\* The label with the prefix and the suffix cut off by position.
label_by_position(slide_file) ==
    SubSeq(upper(slide_file), 12, Len(slide_file) - 4)

\* slide_file.upper().replace('PPT/SLIDES/', '').replace('.XML', '')
label(slide_file) ==
    replace(replace(upper(slide_file),
                    UpperDir, <<>>),
            UpperXml, <<>>)

\* f"--- {label} ---"
heading(slide_file) ==
    HeadingOpen \o label(slide_file) \o HeadingClose

\* print(e) in place of the formatted line
error_line_bare(e) == e.msg

\* f"Error: {e}"
error_line(e) == ErrorColon \o e.msg

\* print(s): s and a line feed go to standard output.
print(stream, s) == stream \o s \o <<LF>>

----------------------------------------------------------------------------
\* Archives explored

\* 'ppt/slides/slide2.xml'
Slide2 == Lit(<<"p","p","t","/","s","l","i","d","e","s","/","s","l","i","d","e","2",".","x","m","l">>)
\* 'ppt/slides/slide10.xml'
Slide10 == Lit(<<"p","p","t","/","s","l","i","d","e","s","/","s","l","i","d","e","1","0",".","x","m","l">>)
\* 'ppt/slides/slide1.xml.xml'
Slide1XmlXml == Lit(<<"p","p","t","/","s","l","i","d","e","s","/","s","l","i","d","e","1",".","x","m","l",".","x","m","l">>)
\* 'ppt/slides/slide.xml': passes the filter, has no number
SlideNoNumber == Lit(<<"p","p","t","/","s","l","i","d","e","s","/","s","l","i","d","e",".","x","m","l">>)
\* 'ppt/slides/_rels/slide1.xml.rels': not a slide
SlideRels == Lit(<<"p","p","t","/","s","l","i","d","e","s","/","_","r","e","l","s","/","s","l","i","d","e","1",".","x","m","l",".","r","e","l","s">>)

Names == {Slide2, Slide10, Slide1XmlXml, SlideNoNumber, SlideRels}

\* '<p:sld/>': no text element
NoText == Lit(<<"<","p",":","s","l","d","/",">">>)
\* '<a:t>Hello</a:t><a:t></a:t><a:t>World</a:t>'
HelloWorld == Lit(<<"<","a",":","t",">","H","e","l","l","o","<","/","a",":","t",">","<","a",":","t",">","<","/","a",":","t",">","<","a",":","t",">","W","o","r","l","d","<","/","a",":","t",">">>)
\* '<a:t>a\nb</a:t>': a text element that spans two lines
TwoLines == Lit(<<"<","a",":","t",">","a">>) \o <<LF>> \o Lit(<<"b","<","/","a",":","t",">">>)
\* '<a:t>' C3 A9 '</a:t>': e acute in two bytes
TwoByte == OpenTag \o <<195, 169>> \o CloseTag
\* '<a:t>' FF: not UTF-8
NotUtf8 == OpenTag \o <<255>>

\* What an entry holds: its bytes, and whether reading it succeeds (crc_ok =
\* FALSE: ZipFile.read raises BadZipFile).
Entries ==
    {[crc_ok |-> TRUE, bytes |-> b] : b \in {NoText, HelloWorld, TwoLines, TwoByte, NotUtf8}}
    \cup {[crc_ok |-> FALSE, bytes |-> NoText]}

NameLists == UNION {[1..n -> Names] : n \in 0..MaxEntries}

Range(f) == {f[k] : k \in DOMAIN f}

----------------------------------------------------------------------------
\* Exceptions, with str(e)

None == [type |-> "None", msg |-> <<>>]

OpenError ==
    [type |-> "BadZipFile",
     msg |-> Lit(<<"F","i","l","e"," ","i","s"," ","n","o","t"," ","a"," ","z","i","p"," ","f","i","l","e">>)]

AttributeError ==
    [type |-> "AttributeError",
     msg |-> Lit(<<"'","N","o","n","e","T","y","p","e","'"," ","o","b","j","e","c","t"," ","h","a","s"," ","n","o"," ","a","t","t","r","i","b","u","t","e"," ","'","g","r","o","u","p","'">>)]

\* 'Bad CRC-32 for file '
BadCrcText == Lit(<<"B","a","d"," ","C","R","C","-","3","2"," ","f","o","r"," ","f","i","l","e"," ">>)

ReadError(name) ==
    [type |-> "BadZipFileRead", msg |-> BadCrcText \o name \o Quote]

\* The message continues with the byte, its position and the reason.
UnicodeDecodeError ==
    [type |-> "UnicodeDecodeError",
     msg |-> Lit(<<"'","u","t","f","-","8","'"," ","c","o","d","e","c"," ","c","a","n","'","t"," ","d","e","c","o","d","e"," ","b","y","t","e">>)]

\* A handler that catches the archive's and the decoder's errors only.
catches_io_errors(e) == e.type \in {"BadZipFile", "BadZipFileRead", "UnicodeDecodeError"}

\* except Exception: every exception raised in the body is an Exception.
catches(e) == e.type \in {"BadZipFile", "BadZipFileRead", "UnicodeDecodeError", "AttributeError"}

----------------------------------------------------------------------------
\* State

VARIABLES
    openable,      \* the path can be opened as a zip archive
    namelist,      \* zip_ref.namelist(): the entry names in archive order
    data,          \* name -> what the entry holds
    zip_open,      \* the archive handle is open
    slide_files,   \* the local list
    i,             \* position of the for loop in slide_files
    content,       \* the local string
    text_matches,  \* the local list
    stdout,        \* everything printed so far
    exc,           \* the exception raised, None when there is none
    pc             \* where the function is

vars == <<openable, namelist, data, zip_open, slide_files, i, content,
          text_matches, stdout, exc, pc>>

archive == <<openable, namelist, data>>

Init ==
    /\ openable \in BOOLEAN
    /\ namelist \in (IF openable THEN NameLists ELSE {<<>>})
    /\ data \in [{f \in Range(namelist) : is_slide_file(f)} -> Entries]
    /\ zip_open = FALSE
    /\ slide_files = <<>>
    /\ i = 0
    /\ content = <<>>
    /\ text_matches = <<>>
    /\ stdout = <<>>
    /\ exc = None
    /\ pc = "open"

\* line 7: zipfile.ZipFile(pptx_path, 'r') and entry into the with block
Open ==
    /\ pc = "open"
    /\ IF openable
       THEN /\ zip_open' = TRUE
            /\ pc' = "filter"
            /\ exc' = exc
       ELSE /\ zip_open' = zip_open
            /\ pc' = "except"
            /\ exc' = OpenError
    /\ UNCHANGED <<archive, slide_files, i, content, text_matches, stdout>>

\* line 9: the list comprehension
Filter ==
    /\ pc = "filter"
    /\ slide_files' = SelectSeq(namelist, is_slide_file)
    /\ pc' = "sort"
    /\ UNCHANGED <<archive, zip_open, i, content, text_matches, stdout, exc>>

\* line 10: the keys are computed for every element before anything moves
Sort ==
    /\ pc = "sort"
    /\ IF \A k \in 1..Len(slide_files) : slide_key(slide_files[k]).ok
       THEN /\ slide_files' = sort(slide_files)
            /\ i' = 1
            /\ pc' = "for"
            /\ exc' = exc
       ELSE /\ slide_files' = slide_files
            /\ i' = i
            /\ pc' = "with_exit"
            /\ exc' = AttributeError
    /\ UNCHANGED <<archive, zip_open, content, text_matches, stdout>>

\* line 12: the next element, or the end of the loop
For ==
    /\ pc = "for"
    /\ pc' = IF i <= Len(slide_files) THEN "heading" ELSE "with_exit"
    /\ UNCHANGED <<archive, zip_open, slide_files, i, content, text_matches,
                   stdout, exc>>

\* line 13
PrintHeading ==
    /\ pc = "heading"
    /\ stdout' = print(stdout, heading(slide_files[i]))
    /\ pc' = "read"
    /\ UNCHANGED <<archive, zip_open, slide_files, i, content, text_matches, exc>>

\* line 14, with the next slide taken up after a failure
ReadDecodeIsolated ==
    /\ pc = "read"
    /\ LET e == data[slide_files[i]]
           d == decode(e.bytes)
       IN IF e.crc_ok /\ d.ok
          THEN /\ content' = d.text
               /\ pc' = "findall"
               /\ UNCHANGED <<stdout, i>>
          ELSE /\ content' = content
               /\ stdout' = print(stdout, error_line(UnicodeDecodeError))
               /\ i' = i + 1
               /\ pc' = "for"
    /\ UNCHANGED <<archive, zip_open, slide_files, text_matches, exc>>

\* line 14, with the slide's block held back until it is complete: a failure
\* drops the heading already written
ReadDecodeBuffered ==
    /\ pc = "read"
    /\ LET e == data[slide_files[i]]
           d == decode(e.bytes)
           kept == SubSeq(stdout, 1, Len(stdout) - Len(heading(slide_files[i])) - 1)
       IN IF ~e.crc_ok
          THEN /\ exc' = ReadError(slide_files[i])
               /\ pc' = "with_exit"
               /\ content' = content
               /\ stdout' = kept
          ELSE IF ~d.ok
          THEN /\ exc' = UnicodeDecodeError
               /\ pc' = "with_exit"
               /\ content' = content
               /\ stdout' = kept
          ELSE /\ exc' = exc
               /\ pc' = "findall"
               /\ content' = d.text
               /\ stdout' = stdout
    /\ UNCHANGED <<archive, zip_open, slide_files, i, text_matches>>

\* line 14: zip_ref.read(slide_file).decode('utf-8')
ReadDecode ==
    /\ pc = "read"
    /\ LET e == data[slide_files[i]]
           d == decode(e.bytes)
       IN IF ~e.crc_ok
          THEN /\ exc' = ReadError(slide_files[i])
               /\ pc' = "with_exit"
               /\ content' = content
          ELSE IF ~d.ok
          THEN /\ exc' = UnicodeDecodeError
               /\ pc' = "with_exit"
               /\ content' = content
          ELSE /\ exc' = exc
               /\ pc' = "findall"
               /\ content' = d.text
    /\ UNCHANGED <<archive, zip_open, slide_files, i, text_matches, stdout>>

\* line 16
FindAll ==
    /\ pc = "findall"
    /\ text_matches' = findall(content)
    /\ pc' = "content"
    /\ UNCHANGED <<archive, zip_open, slide_files, i, content, stdout, exc>>

\* line 17, with a slide that has no text printing no line
PrintContentSkipEmpty ==
    /\ pc = "content"
    /\ stdout' = IF text_matches = <<>> THEN stdout
                 ELSE print(stdout, join(Space, text_matches))
    /\ pc' = "blank"
    /\ UNCHANGED <<archive, zip_open, slide_files, i, content, text_matches, exc>>

\* line 17
PrintContent ==
    /\ pc = "content"
    /\ stdout' = print(stdout, join(Space, text_matches))
    /\ pc' = "blank"
    /\ UNCHANGED <<archive, zip_open, slide_files, i, content, text_matches, exc>>

\* line 18, and back to the head of the loop
PrintBlank ==
    /\ pc = "blank"
    /\ stdout' = print(stdout, <<>>)
    /\ i' = i + 1
    /\ pc' = "for"
    /\ UNCHANGED <<archive, zip_open, slide_files, content, text_matches, exc>>

\* An exit that closes the archive only when the body ran to its end.
WithExitNoCloseOnError ==
    /\ pc = "with_exit"
    /\ zip_open' = (exc # None)
    /\ pc' = IF exc = None THEN "returned" ELSE "except"
    /\ UNCHANGED <<archive, slide_files, i, content, text_matches, stdout, exc>>

\* line 7: leaving the with block, by its end or by an exception, closes the archive
WithExit ==
    /\ pc = "with_exit"
    /\ zip_open' = FALSE
    /\ pc' = IF exc = None THEN "returned" ELSE "except"
    /\ UNCHANGED <<archive, slide_files, i, content, text_matches, stdout, exc>>

\* lines 19-20: the handler; an exception it does not catch leaves the function
Except ==
    /\ pc = "except"
    /\ IF catches(exc)
       THEN /\ stdout' = print(stdout, error_line(exc))
            /\ pc' = "returned"
       ELSE /\ stdout' = stdout
            /\ pc' = "propagated"
    /\ UNCHANGED <<archive, zip_open, slide_files, i, content, text_matches, exc>>

Next ==
    \/ Open
    \/ Filter
    \/ Sort
    \/ For
    \/ PrintHeading
    \/ ReadDecode
    \/ FindAll
    \/ PrintContent
    \/ PrintBlank
    \/ WithExit
    \/ Except

Spec == Init /\ [][Next]_vars

----------------------------------------------------------------------------
\* Reading the output

RECURSIVE LinesFrom(_, _, _)
LinesFrom(stream, k, cur) ==
    IF k > Len(stream) THEN (IF cur = <<>> THEN <<>> ELSE <<cur>>)
    ELSE IF stream[k] = LF THEN <<cur>> \o LinesFrom(stream, k + 1, <<>>)
    ELSE LinesFrom(stream, k + 1, Append(cur, stream[k]))

\* The lines of a stream, without their line feeds.
Lines(stream) == LinesFrom(stream, 1, <<>>)

Terminal == pc \in {"returned", "propagated"}

ErrorPrefix == Lit(<<"E","r","r","o","r",":">>)

\* The name passes the filter of line 9.
PassesFilter(f) == startswith(f, SlidePrefix) /\ endswith(f, XmlSuffix)

\* Some entry passes the filter and has no number after 'slide'.
HasMalformedName == \E k \in 1..Len(namelist) :
    PassesFilter(namelist[k]) /\ ~search(namelist[k]).matched

Count(s, x) == Cardinality({k \in 1..Len(s) : s[k] = x})

\* slide_files holds exactly the entries of the archive that pass the filter.
HoldsTheSlides ==
    /\ \A f \in Names : PassesFilter(f) => Count(slide_files, f) = Count(namelist, f)
    /\ \A k \in 1..Len(slide_files) : PassesFilter(slide_files[k])

\* Reading or decoding the entry fails.
Unreadable(f) == ~data[f].crc_ok \/ ~decode(data[f].bytes).ok

\* The content line of a slide that can be read.
ContentLineOf(f) == join(Space, findall(decode(data[f].bytes).text))

RECURSIVE Blocks(_, _)
\* What the first n slides of files print when all of them can be read.
Blocks(files, n) ==
    IF n = 0 THEN <<>>
    ELSE Blocks(files, n - 1)
         \o heading(files[n]) \o <<LF>> \o ContentLineOf(files[n]) \o <<LF>> \o <<LF>>

Sorted == pc \notin {"open", "filter", "sort"} /\ exc.type \notin {"BadZipFile", "AttributeError"}

\* The first slide, in sorted order, that cannot be read; 0 when there is none.
FirstUnreadable ==
    IF \E k \in 1..Len(slide_files) : Unreadable(slide_files[k])
    THEN CHOOSE k \in 1..Len(slide_files) :
            /\ Unreadable(slide_files[k])
            /\ \A j \in 1..(k - 1) : ~Unreadable(slide_files[j])
    ELSE 0

----------------------------------------------------------------------------
\* Properties

\* C1: when every slide entry name carries a number, the headings printed so
\* far are those of the archive's slide entries taken in ascending order of
\* that number (2 before 10), whatever the order of the entries in the archive,
\* and a run that completes prints one heading per slide entry.
C1_HeadingsAscendByNumber ==
    (openable /\ ~HasMalformedName /\ Sorted) =>
        LET L == Lines(stdout) IN
        /\ HoldsTheSlides
        /\ \A j, k \in 1..Len(slide_files) :
              j < k => int(search(slide_files[j]).group1) <= int(search(slide_files[k]).group1)
        /\ \A k \in 1..Len(slide_files) :
              3 * k - 2 <= Len(L) => L[3 * k - 2] = heading(slide_files[k])
        /\ (pc = "returned" /\ exc = None) => Len(L) = 3 * Len(slide_files)

\* C1 witness: slide10 comes first in the archive, slide2 is printed first.
C1_Witness ==
    /\ pc = "returned"
    /\ exc = None
    /\ namelist = <<Slide10, Slide2>>
    /\ LET L == Lines(stdout) IN L[1] = heading(Slide2) /\ L[4] = heading(Slide10)

\* C2 as stated: with an entry that passes the filter and has no number, the
\* failure leaves the function uncaught and no 'Error:' line is printed.
C2_MalformedNamePropagates ==
    (Terminal /\ openable /\ HasMalformedName) =>
        LET L == Lines(stdout) IN
        /\ pc = "propagated"
        /\ \A k \in 1..Len(L) : ~startswith(L[k], ErrorPrefix)

\* C2 as amended: with an entry that passes the filter and has no number, the
\* failure raised while the sort keys are computed is caught by the catch-all
\* handler: it never leaves the function, and the run ends with one line
\* 'Error: <details>' as its whole output.
C2_MalformedNameIsCaught ==
    (openable /\ HasMalformedName) =>
        /\ pc # "propagated"
        /\ pc = "returned" =>
              LET L == Lines(stdout) IN
              /\ Len(L) = 1
              /\ startswith(L[1], ErrorColon)
              /\ exc.type = "AttributeError"

\* C2 witness: the run with a malformed name has returned after printing the line.
C2_Witness ==
    /\ openable
    /\ HasMalformedName
    /\ pc = "returned"
    /\ stdout = ErrorColon \o AttributeError.msg \o <<LF>>

\* C3: when the path cannot be opened as a zip archive, the output is never
\* more than one line, and at the end it is exactly one line, beginning with
\* 'Error:'; no heading and no content line is printed.
C3_OpenFailurePrintsOneErrorLine ==
    ~openable =>
        LET L == Lines(stdout) IN
        /\ Len(L) <= 1
        /\ Terminal =>
              /\ pc = "returned"
              /\ Len(L) = 1
              /\ startswith(L[1], ErrorPrefix)
              /\ stdout = L[1] \o <<LF>>

\* C3 witness: the open failed and its message has been printed.
C3_Witness ==
    /\ ~openable
    /\ pc = "returned"
    /\ exc = OpenError
    /\ stdout = ErrorColon \o OpenError.msg \o <<LF>>

\* C4: when reading or decoding a slide entry fails, the run stops there: with
\* k the first such slide in sorted order, the output never goes beyond the
\* blocks of the k-1 slides before it, the heading of slide k and one more
\* line; at the end that last line is the 'Error: <details>' line, the only
\* one of the run, and no later slide has a heading or a content line.
C4_ReadFailureAborts ==
    (openable /\ Sorted /\ ~HasMalformedName /\ FirstUnreadable > 0) =>
        LET k == FirstUnreadable
            L == Lines(stdout)
        IN
        /\ Len(L) <= 3 * (k - 1) + 2
        /\ i <= k
        /\ Terminal =>
              /\ pc = "returned"
              /\ i = k
              /\ Len(L) = 3 * (k - 1) + 2
              /\ startswith(L[Len(L)], ErrorColon)
              /\ \A j \in 1..(Len(L) - 1) : ~startswith(L[j], ErrorPrefix)

\* C4 witness: the first of two slides cannot be read, the run has ended.
C4_Witness ==
    /\ pc = "returned"
    /\ Len(slide_files) = 2
    /\ FirstUnreadable = 1
    /\ ~data[slide_files[1]].crc_ok
    /\ Len(Lines(stdout)) = 2

\* C5: a run that completes without error prints, for each slide entry in
\* sorted order, exactly three lines: the heading '--- <LABEL> ---', one
\* content line and one empty line; a slide without text elements is not
\* skipped, its content line is empty.
C5_ThreeLinesPerSlide ==
    (pc = "returned" /\ exc = None) =>
        LET L == Lines(stdout) IN
        /\ HoldsTheSlides
        /\ Len(L) = 3 * Len(slide_files)
        /\ \A k \in 1..Len(slide_files) :
              /\ L[3 * k - 2] = HeadingOpen \o label(slide_files[k]) \o HeadingClose
              /\ L[3 * k] = <<>>
              /\ findall(decode(data[slide_files[k]].bytes).text) = <<>>
                    => L[3 * k - 1] = <<>>

\* C5 witness: a completed run with a slide that has no text element.
C5_Witness ==
    /\ pc = "returned"
    /\ exc = None
    /\ Len(slide_files) = 2
    /\ data[slide_files[1]].bytes = NoText
    /\ data[slide_files[2]].bytes = HelloWorld
    /\ LET L == Lines(stdout) IN Len(L) = 6 /\ L[2] = <<>>

RECURSIVE ClosingTagFrom(_, _)
\* The first position at or after j where the closing tag starts, 0 when there is none.
ClosingTagFrom(text, j) ==
    IF j > Len(text) THEN 0
    ELSE IF StartsWithAt(text, CloseTag, j) THEN j
    ELSE ClosingTagFrom(text, j + 1)

RECURSIVE TextElementsFrom(_, _)
TextElementsFrom(text, k) ==
    IF k > Len(text) THEN <<>>
    ELSE IF StartsWithAt(text, OpenTag, k)
         THEN LET e == ClosingTagFrom(text, k + Len(OpenTag)) IN
              IF e = 0 THEN <<>>
              ELSE <<SubSeq(text, k + Len(OpenTag), e - 1)>>
                   \o TextElementsFrom(text, e + Len(CloseTag))
         ELSE TextElementsFrom(text, k + 1)

\* What is enclosed by the non-overlapping '<a:t>' ... '</a:t>' pairs of a
\* text, from left to right, each pair closed by the first closing tag after
\* its opening tag, whatever stands between them.
TextElements(text) == TextElementsFrom(text, 1)

\* C6: the content line printed for a slide is what its '<a:t>...</a:t>'
\* occurrences enclose, in document order, duplicates and empty ones kept,
\* joined by one space.
C6_ContentLineIsAllTextElements ==
    pc = "blank" => endswith(stdout, join(Space, TextElements(content)) \o <<LF>>)

\* C7: the heading of a slide is '--- ', the upper-cased entry name without
\* its leading 'ppt/slides/' and its trailing '.xml' and with nothing else
\* removed, and ' ---'.
C7_LabelCutsPrefixAndSuffixOnly ==
    pc = "read" =>
        endswith(stdout, HeadingOpen \o label_by_position(slide_files[i])
                         \o HeadingClose \o <<LF>>)

\* C8: the archive, once opened, is closed when the function has ended,
\* whether it ended normally or after a failure of the sort, a read or a
\* decode; it is already closed when the handler runs.
C8_ArchiveClosedAtExit ==
    (Terminal \/ pc = "except") => ~zip_open

\* C8 witness: the archive was opened, a decode failed, the function has
\* returned and the archive is closed.
C8_Witness ==
    /\ openable
    /\ pc = "returned"
    /\ exc = UnicodeDecodeError
    /\ i = 2
    /\ ~zip_open

\* C9: when decoding fails on the k-th slide in sorted order, the output is
\* the complete blocks of the k-1 slides before it and the heading of the
\* k-th, and at the end of the run the 'Error:' line after them; the k-th
\* slide has no content line and no blank line.
C9_OutputBeforeDecodeFailureStays ==
    (openable /\ Sorted /\ ~HasMalformedName /\ FirstUnreadable > 0) =>
        LET k == FirstUnreadable
            before == Blocks(slide_files, k - 1) \o heading(slide_files[k]) \o <<LF>>
        IN data[slide_files[k]].crc_ok =>
              /\ pc \in {"with_exit", "except"} => stdout = before
              /\ Terminal => stdout = before \o ErrorColon \o UnicodeDecodeError.msg \o <<LF>>

\* 'Hello  World'
HelloSpaceSpaceWorld == Lit(<<"H","e","l","l","o"," "," ","W","o","r","l","d">>)

\* C9 witness: the second slide is not UTF-8; the first slide's block, the
\* second slide's heading and the error line are the output.
C9_Witness ==
    /\ pc = "returned"
    /\ Len(slide_files) = 2
    /\ data[slide_files[1]].bytes = HelloWorld
    /\ data[slide_files[1]].crc_ok
    /\ data[slide_files[2]].bytes = NotUtf8
    /\ LET L == Lines(stdout) IN
          /\ Len(L) = 5
          /\ L[2] = HelloSpaceSpaceWorld
          /\ L[4] = heading(slide_files[2])
          /\ startswith(L[5], ErrorPrefix)

\* C10: when an entry that passes the filter has no number, the loop is never
\* entered: no heading and no content line is printed for any slide, the
\* well-formed ones included, and the output is at most the one error line.
C10_MalformedNameStopsBeforeAnyHeading ==
    (openable /\ HasMalformedName) =>
        LET L == Lines(stdout) IN
        /\ i = 0
        /\ pc \notin {"for", "heading", "read", "findall", "content", "blank"}
        /\ Len(L) <= 1
        /\ \A k \in 1..Len(L) : ~startswith(L[k], HeadingOpen)

\* C10 witness: a well-formed slide before a malformed one, the run has ended
\* with the error line alone.
C10_Witness ==
    /\ namelist = <<Slide2, SlideNoNumber>>
    /\ pc = "returned"
    /\ Len(Lines(stdout)) = 1
    /\ slide_files = <<Slide2, SlideNoNumber>>

====
